---- MODULE Spec2Model ----
(***************************************************************************)
(* Model of the crystarise backend: the request handlers of app_rooms.py,  *)
(* app_crystal.py, app_profile.py and main.py running in the worker thread *)
(* pool against the external store (tables rooms, rooms_members, crystals, *)
(* crystal_records, room_members, users).                                  *)
(*                                                                         *)
(* Every storage round trip of a handler is one atomic step; handlers of   *)
(* different requests interleave between round trips.  app_rooms issues    *)
(* its calls through the module-level client `supabase` after setting the  *)
(* caller's token on it (pg.auth), app_crystal builds a client per call    *)
(* with supabase_as(token).                                                *)
(*                                                                         *)
(* The store is modelled as the code uses it: every row is readable by an  *)
(* authenticated caller and every write is accepted, except that a crystal *)
(* needs an existing room (foreign key) and users has one row per user_id  *)
(* (key).  The row-level-security policies are not part of the repository. *)
(* The store stamps created_at on a new crystal_records row; two rows can  *)
(* carry the same stamp.                                                   *)
(*                                                                         *)
(* Decimal quantities (numeric(12,4)) are integers counting units of       *)
(* 1/Scale; a float is the exact fraction <<numerator, denominator>> in    *)
(* lowest terms.                                                           *)
(*                                                                         *)
(* History: overlapped says that some request started while another one    *)
(* was still being handled; the fields occ, pre, rec, seen, cond and       *)
(* failed of a request remember what it found and did.                     *)
(***************************************************************************)
EXTENDS Integers, Sequences, FiniteSets

VARIABLES rooms, members, crystals, records, handleToken, req, overlapped,
          roomMembers, users

vars == <<rooms, members, crystals, records, handleToken, req, overlapped,
          roomMembers, users>>

\* ---------------------------------------------------------------- bounds
\* requests in flight together: rooms handlers, and record / summary handlers
MaxReqs == 3
LedgerReqs == 2
MaxRooms == 2
\* requests in flight together when the handlers of all modules run
AllReqs == 2

\* Decimal(..., decimal_places=4): four fractional digits.
Scale == 10000

Users == {"alice", "bob"}
\* passwords a request can carry, and those generate_password / the payload give a room
Passwords == {"pw1", "pw2"}
RoomPasswords == {"pw1"}
\* target_value of the rooms payloads
RoomTargets == {500000}
\* target_value inputs: 0, 50.0000, 100.0000
Targets == {0, 500000, 1000000}
\* value inputs: -0.3000, 25.0000, 70.0000, 80.0000; the value 40.0000 of a record
\* that is in the store when the ledger requests start
Values == {-3000, 250000, 700000, 800000}
StoredValues == {400000}

\* ids a crystal request can name: the two crystals (rooms) of the ledger store and
\* one id that is no row
LedgerIds == 1..3

\* limit: int = 50, and the limits a list_records request can carry
DefaultLimit == 50
Limits == {1, DefaultLimit}

\* ProfileUpdate: display_name and avatar_url, each None ("null") or a string
Names == {"null", "Ann"}
Avatars == {"null", "a.png"}
\* user_metadata.name as get_my_profile finds it: absent, or a name
MetaNames == {"null", "Meta"}

RoomKinds == {"create_solo_room", "create_room", "create_group_room", "join_room"}
CreateKinds == {"create_solo_room", "create_room", "create_group_room"}

\* ---------------------------------------------------------------- helpers
Idle ==
    [kind |-> "none", pc |-> "idle", user |-> "none", room |-> 0, pw |-> "none",
     cid |-> 0, target |-> 0, value |-> 0, status |-> 0,
     total |-> 0, rate |-> <<0, 1>>, percent |-> 0,
     occ |-> FALSE, rec |-> 0, seen |-> {}, pre |-> 0,
     limit |-> 0, rows |-> << >>, cond |-> "none",
     name |-> "null", avatar |-> "null", failed |-> FALSE]

Reqs == DOMAIN req

Running(r) == req[r].pc \notin {"idle", "done"}

\* rows of rooms_members of one room
MembersOf(rid) == {i \in 1..Len(members) : members[i].room = rid}

\* rows of crystals of one room
CrystalsOf(rid) == {i \in 1..Len(crystals) : crystals[i].room = rid}

RoomExists(rid) == rid \in 1..Len(rooms)

\* the table ms has a row of user u for room rid
HasRow(ms, rid, u) == \E i \in 1..Len(ms) : ms[i].room = rid /\ ms[i].user = u

\* exists_res.data and len(exists_res.data) > 0   (OccupiedNever: the check left out.)
OccupiedNever(rid) == FALSE

Occupied(rid) == MembersOf(rid) # {}

\* existing = _fetch_crystal_by_room(...); if existing   (HasCrystalNever: left out.)
HasCrystalNever(rid) == FALSE

HasCrystal(rid) == CrystalsOf(rid) # {}

\* A finished request: status and the fields of the response.
Done(q, st) == [q EXCEPT !.pc = "done", !.status = st]

\* upsert(row, on_conflict="room_id,user_id") without ignore_duplicates:
\* PostgREST merges, i.e. the conflicting row takes the new role.
\* (UpsertInsert: a plain insert.)
UpsertInsert(ms, row) == Append(ms, row)

Upsert(ms, row) ==
    IF \E i \in 1..Len(ms) : ms[i].room = row.room /\ ms[i].user = row.user
    THEN [i \in 1..Len(ms) |->
            IF ms[i].room = row.room /\ ms[i].user = row.user
            THEN [ms[i] EXCEPT !.role = row.role]
            ELSE ms[i]]
    ELSE Append(ms, row)

\* The token a storage call of request r runs under: app_rooms calls go through
\* the module-level client and carry whatever token is on it at that moment;
\* app_crystal calls go through supabase_as(creds.credentials).
TokenUsed(r) ==
    IF req[r].kind \in RoomKinds THEN handleToken ELSE req[r].user

\* ---------------------------------------------------------------- decimals
\* str(Decimal): sign, integer digits, the four fractional digits.
ToWire(v) ==
    [neg |-> v < 0,
     int |-> (IF v < 0 THEN -v ELSE v) \div Scale,
     frac |-> (IF v < 0 THEN -v ELSE v) % Scale]

\* Decimal(str(x)) of a number on the wire
FromWire(w) == (IF w.neg THEN -1 ELSE 1) * (w.int * Scale + w.frac)

\* int(Decimal): truncation toward zero (b > 0)
Trunc(a, b) == IF a >= 0 THEN a \div b ELSE -((-a) \div b)

\* percent = int((value / target * 100)) if target > 0 else 0.  The quotient of two
\* numeric(12,4) values is never within 10^-12 of an integer it does not equal,
\* so the 28-digit rounding of the division does not change the integer part.
\* (PercentClamped: the percent capped at 100.)
PercentClamped(value, target) ==
    IF target > 0 THEN (IF value > target THEN 100 ELSE Trunc(value * 100, target)) ELSE 0

Percent(value, target) == IF target > 0 THEN Trunc(value * 100, target) ELSE 0

RECURSIVE GCD(_, _)
GCD(a, b) == IF b = 0 THEN a ELSE GCD(b, a % b)

\* the number n / d (d > 0), as the fraction in lowest terms
Frac(n, d) ==
    LET g == GCD(IF n < 0 THEN -n ELSE n, d)
    IN <<n \div g, d \div g>>

\* rate = float(total / target) if target > 0 else 0.0
Ratio(total, target) == IF target > 0 THEN Frac(total, target) ELSE <<0, 1>>

\* min(rate, 1.0)   (NoMin: the rate as it is.)
NoMin(q) == q

MinOne(q) == IF q[1] > q[2] THEN <<1, 1>> ELSE q

\* total = Decimal("0"); for row in rows: total += Decimal(str(row["value"]))
RECURSIVE SumRows(_)
SumRows(vals) ==
    IF vals = << >> THEN 0
    ELSE SumRows(SubSeq(vals, 1, Len(vals) - 1)) + FromWire(ToWire(vals[Len(vals)]))

\* the orders in which a select without ORDER BY can return the rows S
Orders(S) ==
    {f \in [1..Cardinality(S) -> S] : \A i, j \in 1..Cardinality(S) : i # j => f[i] # f[j]}

\* rows of crystal_records with crystal_id = cid
\* (SelectRecordsStale: a read that misses the newest row.)
SelectRecordsStale(cid) == {i \in 1..(Len(records) - 1) : records[i].crystal = cid}

SelectRecords(cid) == {i \in 1..Len(records) : records[i].crystal = cid}

\* created_at of a new crystal_records row: the store's clock, which has not
\* gone back since the newest row and need not have ticked.
Now ==
    IF records = << >> THEN {1}
    ELSE LET last == CHOOSE t \in {records[i].at : i \in 1..Len(records)} :
                         \A i \in 1..Len(records) : records[i].at <= t
         IN {last, last + 1}

Min(a, b) == IF a < b THEN a ELSE b

\* order("created_at", desc=True): rows with equal created_at in any order
\* (Ascending: desc left out.)
Ascending(ord) ==
    \A i \in 1..(Len(ord) - 1) : records[ord[i]].at <= records[ord[i + 1]].at

Descending(ord) ==
    \A i \in 1..(Len(ord) - 1) : records[ord[i]].at >= records[ord[i + 1]].at

\* Rooms that exist or are about to be inserted by a running create request.
RoomsClaimed ==
    Len(rooms) + Cardinality({q \in Reqs : req[q].kind \in CreateKinds
                                           /\ req[q].pc \in {"auth", "rpc", "insert_room"}})

\* ---------------------------------------------------------------- Init
Init ==
    /\ rooms = << >>
    /\ members = << >>
    /\ crystals = << >>
    /\ records = << >>
    /\ handleToken = "anon"
    /\ req = [r \in 1..MaxReqs |-> Idle]
    /\ overlapped = FALSE
    /\ roomMembers = << >>
    /\ users = << >>

\* ---------------------------------------------------------------- app_rooms
\* A request arrives and its dependencies (get_access_token, get_current_user)
\* resolve the caller; slots are taken in order.
StartRooms(r) ==
    /\ req[r].pc = "idle"
    /\ \A q \in Reqs : q < r => req[q].pc # "idle"
    /\ \E k \in RoomKinds, u \in Users :
         \/ /\ k = "join_room"
            /\ \E rid \in 1..MaxRooms, p \in Passwords :
                 req' = [req EXCEPT ![r] =
                           [Idle EXCEPT !.kind = k, !.pc = "auth", !.user = u,
                                        !.room = rid, !.pw = p,
                                        !.occ = RoomExists(rid) /\ MembersOf(rid) # {}]]
         \/ /\ k \in CreateKinds
            /\ RoomsClaimed < MaxRooms
            /\ \E t \in RoomTargets, p \in RoomPasswords :
                 req' = [req EXCEPT ![r] =
                           [Idle EXCEPT !.kind = k, !.pc = "auth", !.user = u, !.pw = p,
                                        !.target = IF k = "create_room" THEN 0 ELSE t]]
    /\ overlapped' = (overlapped \/ \E q \in Reqs : Running(q))
    /\ UNCHANGED <<rooms, members, crystals, records, handleToken, roomMembers, users>>

\* pg = supabase.postgrest; pg.auth(access_token)
Auth(r) ==
    /\ req[r].pc = "auth"
    /\ handleToken' = req[r].user
    /\ req' = [req EXCEPT ![r].pc =
                 CASE req[r].kind = "create_solo_room" -> "rpc"
                   [] req[r].kind = "join_room" -> "select_room"
                   [] OTHER -> "insert_room"]
    /\ UNCHANGED <<rooms, members, crystals, records, overlapped, roomMembers, users>>

\* The stored procedure create_solo_room_with_crystal: room, crystal and host
\* membership in one transaction, the host being the identity of the call.
RpcCreateSolo(who, pw, target) ==
    /\ rooms' = Append(rooms, [host |-> who, password |-> pw, mode |-> "solo"])
    /\ members' = Append(members, [room |-> Len(rooms) + 1, user |-> who, role |-> "host"])
    /\ crystals' = Append(crystals, [room |-> Len(rooms) + 1, target |-> target])

CreateSoloRoom_Rpc(r) ==
    /\ req[r].kind = "create_solo_room"
    /\ req[r].pc = "rpc"
    /\ RpcCreateSolo(handleToken, req[r].pw, req[r].target)
    /\ req' = [req EXCEPT ![r].pc = "update_name", ![r].room = Len(rooms) + 1]
    /\ UNCHANGED <<records, handleToken, overlapped, roomMembers, users>>

\* pg.from_("rooms").update({"name": ...}) inside try / except: pass (the call
\* succeeds, or raises and is ignored), then the response
CreateSoloRoom_Name(r) ==
    /\ req[r].kind = "create_solo_room"
    /\ req[r].pc = "update_name"
    /\ \E raised \in BOOLEAN :
         req' = [req EXCEPT ![r] = [Done(req[r], 200) EXCEPT !.failed = raised]]
    /\ UNCHANGED <<rooms, members, crystals, records, handleToken, overlapped, roomMembers, users>>

CreateRoom_Insert(r) ==
    /\ req[r].kind = "create_room"
    /\ req[r].pc = "insert_room"
    /\ rooms' = Append(rooms, [host |-> req[r].user, password |-> req[r].pw, mode |-> "solo"])
    /\ req' = [req EXCEPT ![r].pc = "upsert_host", ![r].room = Len(rooms) + 1]
    /\ UNCHANGED <<members, crystals, records, handleToken, overlapped, roomMembers, users>>

CreateRoom_Host(r) ==
    /\ req[r].kind = "create_room"
    /\ req[r].pc = "upsert_host"
    /\ members' = Upsert(members, [room |-> req[r].room, user |-> req[r].user, role |-> "host"])
    /\ req' = [req EXCEPT ![r] = Done(req[r], 200)]
    /\ UNCHANGED <<rooms, crystals, records, handleToken, overlapped, roomMembers, users>>

CreateGroupRoom_Insert(r) ==
    /\ req[r].kind = "create_group_room"
    /\ req[r].pc = "insert_room"
    /\ rooms' = Append(rooms, [host |-> req[r].user, password |-> req[r].pw, mode |-> "group"])
    /\ req' = [req EXCEPT ![r].pc = "upsert_host", ![r].room = Len(rooms) + 1]
    /\ UNCHANGED <<members, crystals, records, handleToken, overlapped, roomMembers, users>>

\* (CreateGroupRoom_HostSkipped: the handler without its rooms_members upsert.)
CreateGroupRoom_HostSkipped(r) ==
    /\ req[r].kind = "create_group_room"
    /\ req[r].pc = "upsert_host"
    /\ req' = [req EXCEPT ![r].pc = "insert_crystal"]
    /\ UNCHANGED <<rooms, members, crystals, records, handleToken, overlapped, roomMembers, users>>

CreateGroupRoom_Host(r) ==
    /\ req[r].kind = "create_group_room"
    /\ req[r].pc = "upsert_host"
    /\ members' = Upsert(members, [room |-> req[r].room, user |-> req[r].user, role |-> "host"])
    /\ req' = [req EXCEPT ![r].pc = "insert_crystal"]
    /\ UNCHANGED <<rooms, crystals, records, handleToken, overlapped, roomMembers, users>>

CreateGroupRoom_Crystal(r) ==
    /\ req[r].kind = "create_group_room"
    /\ req[r].pc = "insert_crystal"
    /\ crystals' = Append(crystals, [room |-> req[r].room, target |-> req[r].target])
    /\ req' = [req EXCEPT ![r] = Done(req[r], 200)]
    /\ UNCHANGED <<rooms, members, records, handleToken, overlapped, roomMembers, users>>

\* select id,password,mode from rooms where id = room_id limit 1, then the
\* 404 / 401 checks and the branch on the mode.
\* (JoinRoom_SelectRoomNoPassword: the password comparison left out.)
JoinRoom_SelectRoomNoPassword(r) ==
    /\ req[r].kind = "join_room"
    /\ req[r].pc = "select_room"
    /\ req' = [req EXCEPT ![r] =
                 IF ~RoomExists(req[r].room) THEN Done(req[r], 404)
                 ELSE IF rooms[req[r].room].mode = "solo"
                      THEN [req[r] EXCEPT !.pc = "select_members"]
                      ELSE [req[r] EXCEPT !.pc = "upsert_member"]]
    /\ UNCHANGED <<rooms, members, crystals, records, handleToken, overlapped, roomMembers, users>>

JoinRoom_SelectRoom(r) ==
    /\ req[r].kind = "join_room"
    /\ req[r].pc = "select_room"
    /\ req' = [req EXCEPT ![r] =
                 IF ~RoomExists(req[r].room) THEN Done(req[r], 404)
                 ELSE IF rooms[req[r].room].password # req[r].pw THEN Done(req[r], 401)
                 ELSE IF rooms[req[r].room].mode = "solo"
                      THEN [req[r] EXCEPT !.pc = "select_members"]
                      ELSE [req[r] EXCEPT !.pc = "upsert_member"]]
    /\ UNCHANGED <<rooms, members, crystals, records, handleToken, overlapped, roomMembers, users>>

\* select user_id from rooms_members where room_id = room_id limit 1
JoinRoom_SelectMembers(r) ==
    /\ req[r].kind = "join_room"
    /\ req[r].pc = "select_members"
    /\ req' = [req EXCEPT ![r] =
                 IF Occupied(req[r].room) THEN Done(req[r], 409)
                 ELSE [req[r] EXCEPT !.pc = "upsert_member"]]
    /\ UNCHANGED <<rooms, members, crystals, records, handleToken, overlapped, roomMembers, users>>

JoinRoom_Upsert(r) ==
    /\ req[r].kind = "join_room"
    /\ req[r].pc = "upsert_member"
    /\ members' = Upsert(members, [room |-> req[r].room, user |-> req[r].user, role |-> "member"])
    /\ req' = [req EXCEPT ![r] = Done(req[r], 200)]
    /\ UNCHANGED <<rooms, crystals, records, handleToken, overlapped, roomMembers, users>>

RoomsStep(r) ==
    \/ Auth(r)
    \/ CreateSoloRoom_Rpc(r)
    \/ CreateSoloRoom_Name(r)
    \/ CreateRoom_Insert(r)
    \/ CreateRoom_Host(r)
    \/ CreateGroupRoom_Insert(r)
    \/ CreateGroupRoom_Host(r)
    \/ CreateGroupRoom_Crystal(r)
    \/ JoinRoom_SelectRoom(r)
    \/ JoinRoom_SelectMembers(r)
    \/ JoinRoom_Upsert(r)

\* ---------------------------------------------------------------- app_crystal
\* POST /crystals: get_current_user resolves the caller, the payload names a room.
\* occ remembers whether the room had a Goal when the request started.
StartCreateCrystal(r) ==
    /\ req[r].pc = "idle"
    /\ \A q \in Reqs : q < r => req[q].pc # "idle"
    /\ \E u \in Users, rid \in 1..MaxRooms, t \in RoomTargets :
         req' = [req EXCEPT ![r] =
                   [Idle EXCEPT !.kind = "create_crystal", !.pc = "fetch_by_room",
                                !.user = u, !.room = rid, !.target = t,
                                !.occ = CrystalsOf(rid) # {}]]
    /\ overlapped' = (overlapped \/ \E q \in Reqs : Running(q))
    /\ UNCHANGED <<rooms, members, crystals, records, handleToken, roomMembers, users>>

\* existing = _fetch_crystal_by_room(room_id); 409 when there is one
CreateCrystal_Check(r) ==
    /\ req[r].kind = "create_crystal"
    /\ req[r].pc = "fetch_by_room"
    /\ req' = [req EXCEPT ![r] =
                 IF HasCrystal(req[r].room) THEN Done(req[r], 409)
                 ELSE [req[r] EXCEPT !.pc = "insert_crystal"]]
    /\ UNCHANGED <<rooms, members, crystals, records, handleToken, overlapped, roomMembers, users>>

\* db.table("crystals").insert(...); the store rejects a room_id that is no room
CreateCrystal_Insert(r) ==
    /\ req[r].kind = "create_crystal"
    /\ req[r].pc = "insert_crystal"
    /\ IF RoomExists(req[r].room)
       THEN /\ crystals' = Append(crystals, [room |-> req[r].room, target |-> req[r].target])
            /\ req' = [req EXCEPT ![r] = [Done(req[r], 200) EXCEPT !.cid = Len(crystals) + 1]]
       ELSE /\ crystals' = crystals
            /\ req' = [req EXCEPT ![r] = [Done(req[r], 500) EXCEPT !.failed = TRUE]]
    /\ UNCHANGED <<rooms, members, records, handleToken, overlapped, roomMembers, users>>

CrystalStep(r) ==
    \/ CreateCrystal_Check(r)
    \/ CreateCrystal_Insert(r)

\* ---------------------------------------------------------------- main.py
\* str(e) of what join_room's `except Exception` can catch: the messages of a
\* raised storage call (below), and "<status>: <detail>" of the HTTPExceptions
\* the handler raises itself inside the try.
StoreMessages ==
    {"rows not found", "The resource was not found",
     "violates row-level security policy", "connection refused"}

\* the except branch of join_room: the status by what str(e) contains
CaughtStatus(m) ==
    IF m \in {"rows not found", "The resource was not found"} THEN 404
    ELSE IF m = "violates row-level security policy" THEN 401
    ELSE 500

\* single().execute() on no row: the call raises with one of these messages
NoRowMessages == {"rows not found", "JSON object requested, multiple (or no) rows returned"}

\* POST /rooms and POST /rooms/join of main.py arrive; get_current_user resolves
\* the caller.
StartMain(r) ==
    /\ req[r].pc = "idle"
    /\ \A q \in Reqs : q < r => req[q].pc # "idle"
    /\ \E u \in Users :
         \/ \E p \in RoomPasswords :
              req' = [req EXCEPT ![r] =
                        [Idle EXCEPT !.kind = "main_create_room", !.pc = "insert_room",
                                     !.user = u, !.pw = p]]
         \/ \E rid \in 1..MaxRooms, p \in Passwords :
              req' = [req EXCEPT ![r] =
                        [Idle EXCEPT !.kind = "main_join_room", !.pc = "select_room",
                                     !.user = u, !.room = rid, !.pw = p]]
    /\ overlapped' = (overlapped \/ \E q \in Reqs : Running(q))
    /\ UNCHANGED <<rooms, members, crystals, records, handleToken, roomMembers, users>>

\* supabase.table("rooms").insert({host_id, password}): the mode is the column's
\* default
Main_CreateRoom(r) ==
    /\ req[r].kind = "main_create_room"
    /\ req[r].pc = "insert_room"
    /\ rooms' = Append(rooms, [host |-> req[r].user, password |-> req[r].pw,
                               mode |-> "default"])
    /\ req' = [req EXCEPT ![r] = [Done(req[r], 200) EXCEPT !.room = Len(rooms) + 1]]
    /\ UNCHANGED <<members, crystals, records, handleToken, overlapped, roomMembers, users>>

\* select * from rooms where id = room_id, single(); the room and password
\* checks.  cond is the condition the handler detected; what it raises inside
\* the try is caught by its own except branch.
Main_JoinRoom_SelectRoom(r) ==
    /\ req[r].kind = "main_join_room"
    /\ req[r].pc = "select_room"
    /\ IF ~RoomExists(req[r].room)
       THEN \E m \in NoRowMessages \cup {"404: Room not found."} :
              req' = [req EXCEPT ![r] =
                        [Done(req[r], CaughtStatus(m)) EXCEPT !.cond = "absent"]]
       ELSE IF rooms[req[r].room].password # req[r].pw
       THEN req' = [req EXCEPT ![r] =
                      [Done(req[r], CaughtStatus("401: Invalid password."))
                          EXCEPT !.cond = "password"]]
       ELSE req' = [req EXCEPT ![r].pc = "select_member"]
    /\ UNCHANGED <<rooms, members, crystals, records, handleToken, overlapped, roomMembers, users>>

\* select * from room_members where room_id, user_id limit 1; the member check
Main_JoinRoom_SelectMember(r) ==
    /\ req[r].kind = "main_join_room"
    /\ req[r].pc = "select_member"
    /\ IF HasRow(roomMembers, req[r].room, req[r].user)
       THEN req' = [req EXCEPT ![r] =
                      [Done(req[r], CaughtStatus("409: User is already a member of this room."))
                          EXCEPT !.cond = "member"]]
       ELSE req' = [req EXCEPT ![r].pc = "insert_member"]
    /\ UNCHANGED <<rooms, members, crystals, records, handleToken, overlapped, roomMembers, users>>

\* supabase.table("room_members").insert({room_id, user_id})
Main_JoinRoom_Insert(r) ==
    /\ req[r].kind = "main_join_room"
    /\ req[r].pc = "insert_member"
    /\ roomMembers' = Append(roomMembers, [room |-> req[r].room, user |-> req[r].user])
    /\ req' = [req EXCEPT ![r] = Done(req[r], 200)]
    /\ UNCHANGED <<rooms, members, crystals, records, handleToken, overlapped, users>>

MainStep(r) ==
    \/ Main_CreateRoom(r)
    \/ Main_JoinRoom_SelectRoom(r)
    \/ Main_JoinRoom_SelectMember(r)
    \/ Main_JoinRoom_Insert(r)

\* ---------------------------------------------------------------- app_profile
\* rows of users of one user
ProfilesOf(u) == {i \in 1..Len(users) : users[i].user = u}

\* _default_profile_payload(display_name)
DefaultProfile(u, n) == [user |-> u, name |-> n, avatar |-> "null"]

\* update_fields: the fields of the patch that are not None
UpdateFields(q) ==
    {f \in {"name", "avatar"} : (IF f = "name" THEN q.name ELSE q.avatar) # "null"}

\* update(update_fields).eq("user_id", u)
UpdateRows(us, q) ==
    [i \in 1..Len(us) |->
        IF us[i].user = q.user
        THEN [us[i] EXCEPT !.name = IF "name" \in UpdateFields(q) THEN q.name ELSE @,
                           !.avatar = IF "avatar" \in UpdateFields(q) THEN q.avatar ELSE @]
        ELSE us[i]]

\* GET / PATCH /me/profile arrive; get_user_id_from_bearer resolves the caller.
StartProfile(r) ==
    /\ req[r].pc = "idle"
    /\ \A q \in Reqs : q < r => req[q].pc # "idle"
    /\ \E u \in Users :
         \/ req' = [req EXCEPT ![r] =
                      [Idle EXCEPT !.kind = "get_my_profile", !.pc = "select_profile",
                                   !.user = u]]
         \/ \E n \in Names, a \in Avatars :
              req' = [req EXCEPT ![r] =
                        [Idle EXCEPT !.kind = "update_my_profile", !.pc = "select_exists",
                                     !.user = u, !.name = n, !.avatar = a]]
    /\ overlapped' = (overlapped \/ \E q \in Reqs : Running(q))
    /\ UNCHANGED <<rooms, members, crystals, records, handleToken, roomMembers, users>>

\* get_my_profile: select ... limit 1; the row when there is one
GetMyProfile_Select(r) ==
    /\ req[r].kind = "get_my_profile"
    /\ req[r].pc = "select_profile"
    /\ \/ /\ ProfilesOf(req[r].user) = {}
          /\ req' = [req EXCEPT ![r].pc = "get_meta"]
       \/ \E i \in ProfilesOf(req[r].user) :
            req' = [req EXCEPT ![r] =
                      [Done(req[r], 200) EXCEPT
                         !.name = IF users[i].name = "null" THEN "User" ELSE users[i].name,
                         !.avatar = users[i].avatar]]
    /\ UNCHANGED <<rooms, members, crystals, records, handleToken, overlapped, roomMembers, users>>

\* supabase.auth.get_user() for the metadata name; `except Exception:
\* initial_name = "User"` when it raises
GetMyProfile_Meta(r) ==
    /\ req[r].kind = "get_my_profile"
    /\ req[r].pc = "get_meta"
    /\ \/ \E n \in MetaNames :
            req' = [req EXCEPT ![r].pc = "insert_profile",
                               ![r].name = IF n = "null" THEN "User" ELSE n]
       \/ req' = [req EXCEPT ![r].pc = "insert_profile", ![r].name = "User",
                             ![r].failed = TRUE]
    /\ UNCHANGED <<rooms, members, crystals, records, handleToken, overlapped, roomMembers, users>>

\* insert of a users row; user_id is the key of users, so a second row for the
\* user makes the call raise, which no handler of app_profile catches (500)
InsertProfile(r, row, next) ==
    IF ProfilesOf(row.user) = {}
    THEN /\ users' = Append(users, row)
         /\ req' = [req EXCEPT ![r] = next]
    ELSE /\ users' = users
         /\ req' = [req EXCEPT ![r] = [Done(req[r], 500) EXCEPT !.failed = TRUE]]

GetMyProfile_Insert(r) ==
    /\ req[r].kind = "get_my_profile"
    /\ req[r].pc = "insert_profile"
    /\ InsertProfile(r, DefaultProfile(req[r].user, req[r].name), Done(req[r], 200))
    /\ UNCHANGED <<rooms, members, crystals, records, handleToken, overlapped, roomMembers>>

\* `if not update_fields: raise HTTPException(400)`, reached after the existence
\* check and the default insert
AfterExists(q) ==
    IF UpdateFields(q) = {} THEN Done(q, 400) ELSE [q EXCEPT !.pc = "update_profile"]

\* update_my_profile: res0 = select user_id ... limit 1; exists = bool(res0.data)
UpdateMyProfile_Exists(r) ==
    /\ req[r].kind = "update_my_profile"
    /\ req[r].pc = "select_exists"
    /\ req' = [req EXCEPT ![r] =
                 IF ProfilesOf(req[r].user) = {}
                 THEN [req[r] EXCEPT !.pc = "insert_default"]
                 ELSE AfterExists(req[r])]
    /\ UNCHANGED <<rooms, members, crystals, records, handleToken, overlapped, roomMembers, users>>

\* if not exists: insert the default row
UpdateMyProfile_InsertDefault(r) ==
    /\ req[r].kind = "update_my_profile"
    /\ req[r].pc = "insert_default"
    /\ InsertProfile(r, DefaultProfile(req[r].user, "User"), AfterExists(req[r]))
    /\ UNCHANGED <<rooms, members, crystals, records, handleToken, overlapped, roomMembers>>

UpdateMyProfile_Update(r) ==
    /\ req[r].kind = "update_my_profile"
    /\ req[r].pc = "update_profile"
    /\ users' = UpdateRows(users, req[r])
    /\ req' = [req EXCEPT ![r].pc = "select_after"]
    /\ UNCHANGED <<rooms, members, crystals, records, handleToken, overlapped, roomMembers>>

\* the row after the update; 404 when there is none
UpdateMyProfile_SelectAfter(r) ==
    /\ req[r].kind = "update_my_profile"
    /\ req[r].pc = "select_after"
    /\ \/ /\ ProfilesOf(req[r].user) = {}
          /\ req' = [req EXCEPT ![r] = Done(req[r], 404)]
       \/ \E i \in ProfilesOf(req[r].user) :
            req' = [req EXCEPT ![r] =
                      [Done(req[r], 200) EXCEPT
                         !.name = IF users[i].name = "null" THEN "User" ELSE users[i].name,
                         !.avatar = users[i].avatar]]
    /\ UNCHANGED <<rooms, members, crystals, records, handleToken, overlapped, roomMembers, users>>

ProfileStep(r) ==
    \/ GetMyProfile_Select(r)
    \/ GetMyProfile_Meta(r)
    \/ GetMyProfile_Insert(r)
    \/ UpdateMyProfile_Exists(r)
    \/ UpdateMyProfile_InsertDefault(r)
    \/ UpdateMyProfile_Update(r)
    \/ UpdateMyProfile_SelectAfter(r)

\* ---------------------------------------------------------------- failures
\* A storage round trip raises: the handler's except branch answers 500
\* (join_room answers 404 when the message says "rows not found"; app_profile
\* has no except branch and the framework answers 500).  pg.auth is local;
\* create_solo_room and get_my_profile catch a failure of the rooms.name update
\* and of the metadata lookup themselves.  failed marks the request whose call
\* raised.
FailStatus(q) ==
    IF q.kind = "join_room" THEN {404, 500}
    ELSE IF q.kind = "main_join_room" THEN {CaughtStatus(m) : m \in StoreMessages}
    ELSE {500}

\* (FailIgnored: the raised call is ignored and the handler goes on.)
FailIgnored(r) ==
    /\ req[r].pc \notin {"idle", "done", "auth", "update_name", "get_meta"}
    /\ ~req[r].failed
    /\ req' = [req EXCEPT ![r].failed = TRUE]
    /\ UNCHANGED <<rooms, members, crystals, records, handleToken, overlapped, roomMembers, users>>

Fail(r) ==
    /\ req[r].pc \notin {"idle", "done", "auth", "update_name", "get_meta"}
    /\ \E st \in FailStatus(req[r]) :
         req' = [req EXCEPT ![r] = [Done(req[r], st) EXCEPT !.failed = TRUE]]
    /\ UNCHANGED <<rooms, members, crystals, records, handleToken, overlapped, roomMembers, users>>

\* The identity call of the request's dependency raises: get_current_user and
\* get_user_id_from_bearer answer 401 on any exception; create_group_room calls
\* supabase.auth.get_user inside its own try and answers 500; create_solo_room
\* makes no identity call.
IdentityKinds ==
    {"create_room", "create_group_room", "join_room", "create_crystal",
     "add_record", "add_record_by_room", "get_summary", "get_summary_by_room",
     "list_records", "get_my_profile", "update_my_profile",
     "main_create_room", "main_join_room"}

IdentityFails(r) ==
    /\ req[r].pc = "idle"
    /\ \A q \in Reqs : q < r => req[q].pc # "idle"
    /\ \E k \in IdentityKinds, u \in Users :
         req' = [req EXCEPT ![r] =
                   [Done(Idle, IF k = "create_group_room" THEN 500 ELSE 401)
                       EXCEPT !.kind = k, !.user = u, !.cond = "identity",
                              !.failed = TRUE]]
    /\ overlapped' = (overlapped \/ \E q \in Reqs : Running(q))
    /\ UNCHANGED <<rooms, members, crystals, records, handleToken, roomMembers, users>>

Next ==
    \E r \in Reqs :
        \/ StartRooms(r)
        \/ StartCreateCrystal(r)
        \/ RoomsStep(r)
        \/ CrystalStep(r)
        \/ Fail(r)

Spec == Init /\ [][Next]_vars

\* main.py alone, from the empty store
NextMain == \E r \in Reqs : StartMain(r) \/ MainStep(r) \/ Fail(r)

SpecMain == Init /\ [][NextMain]_vars

\* app_profile alone, from the empty store
NextProfile == \E r \in Reqs : StartProfile(r) \/ ProfileStep(r) \/ Fail(r)

SpecProfile == Init /\ [][NextProfile]_vars

\* ---------------------------------------------------------------- the ledger
\* A store the handlers leave behind: alice's group room (crystal 2), bob's solo
\* room made by the stored procedure (crystal 1), and no record or one record.
InitLedger ==
    /\ rooms = <<[host |-> "alice", password |-> "pw1", mode |-> "group"],
                 [host |-> "bob", password |-> "pw1", mode |-> "solo"]>>
    /\ members = <<[room |-> 1, user |-> "alice", role |-> "host"],
                   [room |-> 2, user |-> "bob", role |-> "host"]>>
    /\ \E t1 \in Targets, t2 \in RoomTargets :
         crystals = <<[room |-> 2, target |-> t2], [room |-> 1, target |-> t1]>>
    /\ \/ records = << >>
       \/ \E v \in StoredValues :
            records = <<[crystal |-> 2, user |-> "alice", value |-> v, at |-> 1]>>
    /\ handleToken = "anon"
    /\ req = [r \in 1..LedgerReqs |-> Idle]
    /\ overlapped = FALSE
    /\ roomMembers = << >>
    /\ users = << >>

LedgerKinds == {"add_record", "add_record_by_room", "get_summary", "get_summary_by_room",
                "list_records"}

\* A request of the record / summary endpoints arrives; pre remembers how many
\* records were committed before it started.
StartLedger(r) ==
    /\ req[r].pc = "idle"
    /\ \A q \in Reqs : q < r => req[q].pc # "idle"
    /\ \E k \in LedgerKinds, u \in Users, id \in LedgerIds :
         \/ /\ k \in {"add_record", "add_record_by_room"}
            /\ \E v \in Values :
                 req' = [req EXCEPT ![r] =
                           [Idle EXCEPT !.kind = k, !.user = u, !.value = v,
                                        !.pre = Len(records),
                                        !.pc = IF k = "add_record" THEN "fetch_crystal"
                                               ELSE "fetch_by_room",
                                        !.cid = IF k = "add_record" THEN id ELSE 0,
                                        !.room = IF k = "add_record" THEN 0 ELSE id]]
         \/ /\ k \in {"get_summary", "get_summary_by_room"}
            /\ req' = [req EXCEPT ![r] =
                         [Idle EXCEPT !.kind = k, !.user = u, !.pre = Len(records),
                                      !.pc = IF k = "get_summary" THEN "fetch_crystal"
                                             ELSE "fetch_by_room",
                                      !.cid = IF k = "get_summary" THEN id ELSE 0,
                                      !.room = IF k = "get_summary" THEN 0 ELSE id]]
         \/ /\ k = "list_records"
            /\ \E n \in Limits :
                 req' = [req EXCEPT ![r] =
                           [Idle EXCEPT !.kind = k, !.user = u, !.pre = Len(records),
                                        !.pc = "fetch_crystal", !.cid = id, !.limit = n]]
    /\ overlapped' = (overlapped \/ \E q \in Reqs : Running(q))
    /\ UNCHANGED <<rooms, members, crystals, records, handleToken, roomMembers, users>>

\* _fetch_crystal: 404 when no row has this crystal_id
FetchCrystal(r) ==
    /\ req[r].kind \in {"add_record", "get_summary", "list_records"}
    /\ req[r].pc = "fetch_crystal"
    /\ req' = [req EXCEPT ![r] =
                 IF req[r].cid \notin 1..Len(crystals) THEN Done(req[r], 404)
                 ELSE [req[r] EXCEPT
                         !.target = FromWire(ToWire(crystals[req[r].cid].target)),
                         !.pc = CASE req[r].kind = "add_record" -> "insert_record"
                                  [] req[r].kind = "list_records" -> "select_records"
                                  [] OTHER -> "sum_records"]]
    /\ UNCHANGED <<rooms, members, crystals, records, handleToken, overlapped, roomMembers, users>>

\* _fetch_crystal_by_room (limit 1: any row of the room), 404 when there is none
FetchCrystalByRoom(r) ==
    /\ req[r].kind \in {"add_record_by_room", "get_summary_by_room"}
    /\ req[r].pc = "fetch_by_room"
    /\ \/ /\ CrystalsOf(req[r].room) = {}
          /\ req' = [req EXCEPT ![r] = Done(req[r], 404)]
       \/ \E c \in CrystalsOf(req[r].room) :
            req' = [req EXCEPT ![r] =
                      [req[r] EXCEPT
                         !.cid = c,
                         !.target = FromWire(ToWire(crystals[c].target)),
                         !.pc = IF req[r].kind = "add_record_by_room" THEN "insert_record"
                                ELSE "sum_records"]]
    /\ UNCHANGED <<rooms, members, crystals, records, handleToken, overlapped, roomMembers, users>>

\* add_record: insert the row, answer the percent of this one value
AddRecord_Insert(r) ==
    /\ req[r].kind = "add_record"
    /\ req[r].pc = "insert_record"
    /\ \E t \in Now :
         LET row == [crystal |-> req[r].cid, user |-> req[r].user,
                     value |-> FromWire(ToWire(req[r].value)), at |-> t]
         IN /\ records' = Append(records, row)
            /\ req' = [req EXCEPT ![r] =
                         [Done(req[r], 200) EXCEPT
                            !.rec = Len(records) + 1,
                            !.percent = Percent(FromWire(ToWire(row.value)), req[r].target)]]
    /\ UNCHANGED <<rooms, members, crystals, handleToken, overlapped, roomMembers, users>>

\* add_record_by_room: insert the row, then sum
\* (AddRecordByRoom_InsertTwice: the insert issued a second time.)
AddRecordByRoom_InsertTwice(r) ==
    /\ req[r].kind = "add_record_by_room"
    /\ req[r].pc = "insert_record"
    /\ \E t \in Now :
         LET row == [crystal |-> req[r].cid, user |-> req[r].user,
                     value |-> FromWire(ToWire(req[r].value)), at |-> t]
         IN records' = Append(Append(records, row), row)
    /\ req' = [req EXCEPT ![r].pc = "sum_records", ![r].rec = Len(records) + 2]
    /\ UNCHANGED <<rooms, members, crystals, handleToken, overlapped, roomMembers, users>>

AddRecordByRoom_Insert(r) ==
    /\ req[r].kind = "add_record_by_room"
    /\ req[r].pc = "insert_record"
    /\ \E t \in Now :
         records' = Append(records, [crystal |-> req[r].cid, user |-> req[r].user,
                                     value |-> FromWire(ToWire(req[r].value)), at |-> t])
    /\ req' = [req EXCEPT ![r].pc = "sum_records", ![r].rec = Len(records) + 1]
    /\ UNCHANGED <<rooms, members, crystals, handleToken, overlapped, roomMembers, users>>

\* _sum_records and the summary of add_record_by_room, get_summary and
\* get_summary_by_room
Summarise(r) ==
    /\ req[r].kind \in {"add_record_by_room", "get_summary", "get_summary_by_room"}
    /\ req[r].pc = "sum_records"
    /\ \E ord \in Orders(SelectRecords(req[r].cid)) :
         LET total == SumRows([i \in 1..Len(ord) |-> records[ord[i]].value])
         IN req' = [req EXCEPT ![r] =
                      [Done(req[r], 200) EXCEPT
                         !.seen = SelectRecords(req[r].cid),
                         !.total = total,
                         !.rate = MinOne(Ratio(total, req[r].target))]]
    /\ UNCHANGED <<rooms, members, crystals, records, handleToken, overlapped, roomMembers, users>>

\* list_records: select * where crystal_id = cid, order by created_at desc,
\* limit; the response is the rows (rows holds their positions in the table)
\* (ListRecords_SelectAscending: the rows oldest first.)
ListRecords_SelectAscending(r) ==
    /\ req[r].kind = "list_records"
    /\ req[r].pc = "select_records"
    /\ \E ord \in Orders(SelectRecords(req[r].cid)) :
         /\ Ascending(ord)
         /\ req' = [req EXCEPT ![r] =
                      [Done(req[r], 200) EXCEPT
                         !.seen = SelectRecords(req[r].cid),
                         !.rows = SubSeq(ord, 1, Min(req[r].limit, Len(ord)))]]
    /\ UNCHANGED <<rooms, members, crystals, records, handleToken, overlapped, roomMembers, users>>

ListRecords_Select(r) ==
    /\ req[r].kind = "list_records"
    /\ req[r].pc = "select_records"
    /\ \E ord \in Orders(SelectRecords(req[r].cid)) :
         /\ Descending(ord)
         /\ req' = [req EXCEPT ![r] =
                      [Done(req[r], 200) EXCEPT
                         !.seen = SelectRecords(req[r].cid),
                         !.rows = SubSeq(ord, 1, Min(req[r].limit, Len(ord)))]]
    /\ UNCHANGED <<rooms, members, crystals, records, handleToken, overlapped, roomMembers, users>>

LedgerStep(r) ==
    \/ ListRecords_Select(r)
    \/ FetchCrystal(r)
    \/ FetchCrystalByRoom(r)
    \/ AddRecord_Insert(r)
    \/ AddRecordByRoom_Insert(r)
    \/ Summarise(r)

NextLedger == \E r \in Reqs : StartLedger(r) \/ LedgerStep(r) \/ Fail(r)

SpecLedger == InitLedger /\ [][NextLedger]_vars

\* ---------------------------------------------------------------- all handlers
\* The handlers of every module on one store, the identity service failing or
\* not, from the empty store.
InitAll ==
    /\ rooms = << >>
    /\ members = << >>
    /\ crystals = << >>
    /\ records = << >>
    /\ handleToken = "anon"
    /\ req = [r \in 1..AllReqs |-> Idle]
    /\ overlapped = FALSE
    /\ roomMembers = << >>
    /\ users = << >>

NextAll ==
    \E r \in Reqs :
        \/ StartRooms(r)
        \/ StartCreateCrystal(r)
        \/ StartLedger(r)
        \/ StartProfile(r)
        \/ StartMain(r)
        \/ IdentityFails(r)
        \/ RoomsStep(r)
        \/ CrystalStep(r)
        \/ LedgerStep(r)
        \/ ProfileStep(r)
        \/ MainStep(r)
        \/ Fail(r)

SpecAll == InitAll /\ [][NextAll]_vars

\* ================================================================ properties
Finished(r, st) == req[r].pc = "done" /\ req[r].status = st

\* the request took a step
Stepped(r) == req'[r] # req[r]

\* sum of the values of a set of records, taken in no particular order
RECURSIVE SetSum(_)
SetSum(S) ==
    IF S = {} THEN 0
    ELSE LET i == CHOOSE x \in S : TRUE IN records[i].value + SetSum(S \ {i})

\* clamp(S / target, 0, 1)
Clamp01(S, target) ==
    IF S >= target THEN <<1, 1>> ELSE IF S <= 0 THEN <<0, 1>> ELSE Frac(S, target)

SummaryKinds == {"get_summary", "get_summary_by_room"}

\* ---------------------------------------------------------------- C1
\* C1 as stated: in every reachable state every solo room has at most one
\* Membership row.
C1_SoloAtMostOne ==
    \A rid \in 1..Len(rooms) :
        rooms[rid].mode = "solo" => Cardinality(MembersOf(rid)) <= 1

\* C1 amended: as long as no request has started while another one was being
\* handled, every solo room has at most one Membership row (requests that failed
\* part-way included).
C1_SoloAtMostOneSerial == ~overlapped => C1_SoloAtMostOne

\* a run without overlap in which an occupied solo room turned a join away
C1_Witness ==
    /\ ~overlapped
    /\ \E r \in Reqs :
         /\ req[r].kind = "join_room" /\ Finished(r, 409)
         /\ rooms[req[r].room].mode = "solo"
         /\ Cardinality(MembersOf(req[r].room)) = 1

C3_CallerToken ==
    [][\A r \in Reqs :
          (req[r].pc \notin {"idle", "done", "auth"} /\ Stepped(r))
              => TokenUsed(r) = req[r].user]_vars

\* ---------------------------------------------------------------- C4
\* C4: a summary reports the Goal's target, as total the sum S of the Goal's
\* Contributions committed when it read them (in whatever order they come), and
\* as rate clamp(S / target, 0, 1) when target > 0 and the values are not
\* negative, 0 when target = 0.
C4_Summary ==
    \A r \in Reqs :
        (req[r].kind \in SummaryKinds /\ Finished(r, 200)) =>
            LET S == SetSum(req[r].seen) IN
            /\ req[r].target = crystals[req[r].cid].target
            /\ \E k \in 0..Len(records) :
                 req[r].seen = {i \in 1..k : records[i].crystal = req[r].cid}
            /\ (req[r].target > 0 /\ \A i \in req[r].seen : records[i].value >= 0) =>
                   /\ req[r].total = S
                   /\ req[r].rate = Clamp01(S, req[r].target)
            /\ req[r].target = 0 => req[r].rate = <<0, 1>>

\* target 100, contributions 40 and 70: total 110, rate 1.0
C4_Witness ==
    \E r \in Reqs :
        /\ req[r].kind \in SummaryKinds /\ Finished(r, 200)
        /\ req[r].target = 1000000
        /\ {records[i].value : i \in req[r].seen} = {400000, 700000}
        /\ req[r].total = 1100000
        /\ req[r].rate = <<1, 1>>

\* ---------------------------------------------------------------- C5
\* C5: every progress_rate reported by get_summary, get_summary_by_room and
\* add_record_by_room lies in [0, 1].
C5_RateInUnitInterval ==
    \A r \in Reqs :
        (req[r].kind \in SummaryKinds \cup {"add_record_by_room"} /\ Finished(r, 200)) =>
            (0 <= req[r].rate[1] /\ req[r].rate[1] <= req[r].rate[2])

\* ---------------------------------------------------------------- C6
\* C6: a summary for a goal counts every Contribution of that goal that was
\* committed before the summary request started, add_record_by_room's summary
\* counts its own Contribution, and the total is the sum of what was counted.
C6_ReadAfterWrite ==
    \A r \in Reqs :
        (req[r].kind \in SummaryKinds \cup {"add_record_by_room"} /\ Finished(r, 200)) =>
            /\ \A i \in 1..req[r].pre : records[i].crystal = req[r].cid => i \in req[r].seen
            /\ req[r].kind = "add_record_by_room" => req[r].rec \in req[r].seen
            /\ req[r].total = SetSum(req[r].seen)

\* an add_record succeeded, a get_summary that started afterwards counted it, and
\* an add_record_by_room counted its own record
C6_Witness ==
    \E q, r \in Reqs :
        /\ req[q].kind = "add_record_by_room" /\ Finished(q, 200)
        /\ req[q].rec \in req[q].seen
        /\ req[r].kind = "get_summary" /\ Finished(r, 200)
        /\ req[r].cid = req[q].cid
        /\ req[r].pre >= req[q].rec
        /\ req[q].rec \in req[r].seen
        /\ req[r].total >= req[q].value

\* ---------------------------------------------------------------- C7
\* C7 as stated: add_record returns floor(value / target * 100) when target > 0
\* and 0 when target <= 0.
C7_PercentIsFloor ==
    \A r \in Reqs :
        (req[r].kind = "add_record" /\ Finished(r, 200)) =>
            req[r].percent =
                IF req[r].target > 0 THEN (req[r].value * 100) \div req[r].target ELSE 0

\* C7 amended: add_record persists the Contribution and returns value / target *
\* 100 truncated toward zero (the floor for value >= 0, the ceiling below 0),
\* unclamped, when target > 0, and 0 when target <= 0.
C7_PercentIsTruncation ==
    \A r \in Reqs :
        (req[r].kind = "add_record" /\ Finished(r, 200)) =>
            LET p == req[r].percent
                a == req[r].value * 100
                t == req[r].target
            IN /\ req[r].rec \in 1..Len(records)
               /\ records[req[r].rec].crystal = req[r].cid
               /\ records[req[r].rec].user = req[r].user
               /\ records[req[r].rec].value = req[r].value
               /\ t = crystals[req[r].cid].target
               /\ (t > 0 /\ a >= 0) => (p * t <= a /\ a < (p + 1) * t)
               /\ (t > 0 /\ a < 0) => ((p - 1) * t < a /\ a <= p * t)
               /\ t <= 0 => p = 0

\* target 50: value 80 returned 160, and value -0.3 returned 0
C7_Witness ==
    \E q, r \in Reqs :
        /\ req[q].kind = "add_record" /\ Finished(q, 200)
        /\ req[q].target = 500000 /\ req[q].value = 800000 /\ req[q].percent = 160
        /\ req[r].kind = "add_record" /\ Finished(r, 200)
        /\ req[r].target = 500000 /\ req[r].value = -3000 /\ req[r].percent = 0

\* ---------------------------------------------------------------- C8
PasswordOk(r) == RoomExists(req[r].room) /\ rooms[req[r].room].password = req[r].pw

\* C8: a join_room with the correct password on a solo room that had a
\* Membership when the request started never touches rooms_members and, unless a
\* storage call raises, ends with 409.
C8_SoloOccupiedConflict ==
    [][\A r \in Reqs :
          (/\ req[r].kind = "join_room"
           /\ req[r].occ
           /\ PasswordOk(r)
           /\ rooms[req[r].room].mode = "solo"
           /\ Stepped(r))
              => /\ members' = members
                 /\ (req'[r].pc = "done" /\ ~Fail(r)) => req'[r].status = 409]_vars

\* an occupied solo room has turned away its own member and another user
C8_Witness ==
    \E q, r \in Reqs :
        /\ req[q].kind = "join_room" /\ Finished(q, 409) /\ req[q].occ /\ PasswordOk(q)
        /\ req[r].kind = "join_room" /\ Finished(r, 409) /\ req[r].occ /\ PasswordOk(r)
        /\ req[q].room = req[r].room
        /\ rooms[req[q].room].mode = "solo"
        /\ HasRow(members, req[q].room, req[q].user)
        /\ ~HasRow(members, req[r].room, req[r].user)

\* ---------------------------------------------------------------- C9
\* C9: a join_room with the correct password on a group room ends, unless a
\* storage call raises, with 200; its upsert adds the one row (room, user,
\* member) when the user has none, leaves rooms_members as it is when the user
\* already has the row with role member, and never leaves two rows for one
\* (room, user).
C9_GroupJoinIdempotent ==
    [][\A r \in Reqs :
          (/\ req[r].kind = "join_room"
           /\ PasswordOk(r)
           /\ rooms[req[r].room].mode = "group"
           /\ Stepped(r))
              => LET row == [room |-> req[r].room, user |-> req[r].user, role |-> "member"]
                     mine == {i \in 1..Len(members') :
                                 members'[i].room = row.room /\ members'[i].user = row.user}
                 IN /\ (req'[r].pc = "done" /\ ~Fail(r)) =>
                          /\ req'[r].status = 200
                          /\ Cardinality(mine) = 1
                          /\ ~HasRow(members, row.room, row.user) =>
                                 members' = Append(members, row)
                    /\ (\E i \in 1..Len(members) : members[i] = row) => members' = members
                    /\ req'[r].pc # "done" => members' = members]_vars

\* the same user has joined a group room twice, both times with 200, and has one
\* row, with role member
C9_Witness ==
    \E q, r \in Reqs :
        /\ q # r
        /\ req[q].kind = "join_room" /\ Finished(q, 200)
        /\ req[r].kind = "join_room" /\ Finished(r, 200)
        /\ req[q].room = req[r].room /\ req[q].user = req[r].user
        /\ rooms[req[q].room].mode = "group"
        /\ rooms[req[q].room].host # req[q].user
        /\ Cardinality({i \in 1..Len(members) :
                           members[i] = [room |-> req[q].room, user |-> req[q].user,
                                         role |-> "member"]}) = 1
        /\ Cardinality({i \in 1..Len(members) :
                           members[i].room = req[q].room /\ members[i].user = req[q].user}) = 1

\* ---------------------------------------------------------------- C10
\* C10: no step changes or deletes an existing Membership row.
C10_MembershipImmutable ==
    [][/\ Len(members') >= Len(members)
       /\ \A i \in 1..Len(members) : members'[i] = members[i]]_vars

\* ---------------------------------------------------------------- C11
\* C11: a create_crystal for a room that had a Goal when the request started
\* never inserts into crystals and, unless a storage call raises, ends with 409.
C11_ExistingGoalConflict ==
    [][\A r \in Reqs :
          (req[r].kind = "create_crystal" /\ req[r].occ /\ Stepped(r))
              => /\ crystals' = crystals
                 /\ (req'[r].pc = "done" /\ ~Fail(r)) => req'[r].status = 409]_vars

\* create_group_room gave its room a Goal, and a later create_crystal for that
\* room was answered 409
C11_Witness ==
    \E q, r \in Reqs :
        /\ req[q].kind = "create_group_room" /\ Finished(q, 200)
        /\ req[r].kind = "create_crystal" /\ req[r].occ /\ Finished(r, 409)
        /\ req[r].room = req[q].room
        /\ Cardinality(CrystalsOf(req[r].room)) = 1

\* ---------------------------------------------------------------- C12
\* C12: join_room of app_rooms answers 404 when the room is absent, otherwise 401
\* when the password does not match (an occupied solo room included), otherwise
\* 409 when the room is solo and has a Membership at the check; a join that does
\* not end with 200 leaves rooms_members as it is.  (A storage call that raises
\* ends the request by itself.)
C12_JoinRoomFailures ==
    [][\A r \in Reqs :
          (req[r].kind = "join_room" /\ Stepped(r))
              => /\ (req'[r].pc = "done" /\ req'[r].status # 200) => members' = members
                 /\ (req[r].pc = "select_room" /\ ~Fail(r)) =>
                        /\ ~RoomExists(req[r].room) =>
                               (req'[r].pc = "done" /\ req'[r].status = 404)
                        /\ (RoomExists(req[r].room) /\ ~PasswordOk(r)) =>
                               (req'[r].pc = "done" /\ req'[r].status = 401)
                        /\ PasswordOk(r) => req'[r].pc # "done"
                 /\ (req[r].pc = "select_members" /\ ~Fail(r)) =>
                        /\ PasswordOk(r) /\ rooms[req[r].room].mode = "solo"
                        /\ Occupied(req[r].room) =>
                               (req'[r].pc = "done" /\ req'[r].status = 409)
                        /\ ~Occupied(req[r].room) => req'[r].pc # "done"
                 /\ (req[r].pc = "upsert_member" /\ ~Fail(r)) =>
                        (PasswordOk(r) /\ req'[r].status = 200)]_vars

\* an occupied solo room has answered 401 to a wrong password and 409 to the
\* right one, and still has its one Membership
C12_Witness ==
    \E p, q \in Reqs :
        /\ req[p].kind = "join_room" /\ Finished(p, 401) /\ req[p].occ
        /\ rooms[req[p].room].mode = "solo" /\ ~PasswordOk(p)
        /\ req[q].kind = "join_room" /\ Finished(q, 409) /\ PasswordOk(q)
        /\ req[q].room = req[p].room
        /\ Cardinality(MembersOf(req[p].room)) = 1

\* ---------------------------------------------------------------- C14
\* C14: create_group_room writes the room, then the host Membership, then the
\* Goal, one table per step; a step that ends the request with 500 writes
\* nothing and undoes nothing, and no step of any request removes a room, a
\* (room, user) Membership or a Goal that is there.
C14_GroupRoomNoRollback ==
    [][/\ \A i \in 1..Len(rooms) : i <= Len(rooms') /\ rooms'[i] = rooms[i]
       /\ \A i \in 1..Len(members) : HasRow(members', members[i].room, members[i].user)
       /\ \A i \in 1..Len(crystals) : i <= Len(crystals') /\ crystals'[i] = crystals[i]
       /\ \A r \in Reqs :
            (req[r].kind = "create_group_room" /\ Stepped(r)) =>
                LET q == req[r]
                    ok == ~(req'[r].pc = "done" /\ req'[r].status = 500)
                IN /\ ~ok => (rooms' = rooms /\ members' = members /\ crystals' = crystals)
                   /\ (q.pc = "insert_room" /\ ok) =>
                          /\ rooms' = Append(rooms, [host |-> q.user, password |-> q.pw,
                                                     mode |-> "group"])
                          /\ members' = members /\ crystals' = crystals
                          /\ req'[r].pc = "upsert_host" /\ req'[r].room = Len(rooms')
                   /\ (q.pc = "upsert_host" /\ ok) =>
                          /\ \E i \in 1..Len(members') :
                                 members'[i] = [room |-> q.room, user |-> q.user,
                                                role |-> "host"]
                          /\ rooms' = rooms /\ crystals' = crystals
                          /\ req'[r].pc = "insert_crystal"
                   /\ (q.pc = "insert_crystal" /\ ok) =>
                          /\ crystals' = Append(crystals, [room |-> q.room,
                                                           target |-> q.target])
                          /\ rooms' = rooms /\ members' = members
                          /\ req'[r].pc = "done" /\ req'[r].status = 200]_vars

\* two create_group_room requests have ended with 500: the room of one has its
\* host Membership and no Goal, the room of the other has no Membership
C14_Witness ==
    \E q, r \in Reqs :
        /\ req[q].kind = "create_group_room" /\ Finished(q, 500)
        /\ RoomExists(req[q].room)
        /\ \E i \in 1..Len(members) :
               members[i] = [room |-> req[q].room, user |-> req[q].user, role |-> "host"]
        /\ CrystalsOf(req[q].room) = {}
        /\ req[r].kind = "create_group_room" /\ Finished(r, 500)
        /\ RoomExists(req[r].room)
        /\ MembersOf(req[r].room) = {}

AddKinds == {"add_record", "add_record_by_room"}

\* the step appends to crystal_records the one row of request r
AppendsRowOf(r) ==
    /\ Len(records') = Len(records) + 1
    /\ records'[Len(records')].crystal = req[r].cid
    /\ records'[Len(records')].user = req[r].user
    /\ records'[Len(records')].value = req[r].value
    /\ req[r].rec = 0
    /\ req'[r].rec = Len(records')

\* no step changes or removes a Contribution, and only an add request adds one
RecordsAppendOnly ==
    /\ \A i \in 1..Len(records) : i <= Len(records') /\ records'[i] = records[i]
    /\ records' # records =>
           \E r \in Reqs : req[r].kind \in AddKinds /\ Stepped(r) /\ AppendsRowOf(r)

\* C16 as stated: no Contribution is ever changed or removed, a successful
\* add_record / add_record_by_room has added exactly one row, with the caller's
\* user id, and a failed one has added none.
C16_AppendOnly ==
    [][/\ RecordsAppendOnly
       /\ \A r \in Reqs :
            (req'[r].kind \in AddKinds /\ Stepped(r) /\ req'[r].pc = "done") =>
                /\ req'[r].status = 200 => req'[r].rec \in 1..Len(records')
                /\ req'[r].status # 200 => req'[r].rec = 0]_vars

\* C16 amended: no Contribution is ever changed or removed, a successful
\* add_record / add_record_by_room has added exactly one row, with the caller's
\* user id, and a failed one has added none, except that an add_record_by_room
\* whose summary read raises after its insert ends with 500 and its row stays.
C16_AppendOnlyNoRollback ==
    [][/\ RecordsAppendOnly
       /\ \A r \in Reqs :
            (req'[r].kind \in AddKinds /\ Stepped(r) /\ req'[r].pc = "done") =>
                /\ req'[r].status = 200 => req'[r].rec \in 1..Len(records')
                /\ (req'[r].status # 200 /\ req'[r].rec # 0) =>
                       /\ req[r].kind = "add_record_by_room"
                       /\ req[r].pc = "sum_records"
                       /\ req'[r].status = 500
                       /\ records' = records]_vars

\* an add_record_by_room has been answered 500 after its insert and its row is
\* in the table; an add_record was answered 200 and its row carries its user
C16_Witness ==
    \E q, r \in Reqs :
        /\ req[q].kind = "add_record_by_room" /\ Finished(q, 500)
        /\ req[q].rec \in 1..Len(records)
        /\ records[req[q].rec].user = req[q].user
        /\ req[r].kind = "add_record" /\ Finished(r, 200)
        /\ req[r].rec \in 1..Len(records)
        /\ records[req[r].rec].user = req[r].user
        /\ req[r].user # req[q].user

\* ---------------------------------------------------------------- C13
\* What a list_records answered 200 returned: rows of the goal only, no row
\* twice, min(limit, number of the goal's rows it read) of them, the rows it
\* read being all rows of the goal committed up to some moment not before the
\* request started, and no row left out that is newer than a returned one.
ListedRows(r) ==
    LET rows == req[r].rows
        S == req[r].seen
    IN /\ \A i \in 1..Len(rows) : rows[i] \in S /\ records[rows[i]].crystal = req[r].cid
       /\ \A i, j \in 1..Len(rows) : i # j => rows[i] # rows[j]
       /\ \E k \in req[r].pre..Len(records) :
              S = {i \in 1..k : records[i].crystal = req[r].cid}
       /\ Len(rows) = Min(req[r].limit, Cardinality(S))
       /\ \A j \in S : (\A i \in 1..Len(rows) : rows[i] # j) =>
              \A i \in 1..Len(rows) : records[j].at <= records[rows[i]].at

\* C13 as stated: list_records returns Contributions of the given goal only, at
\* most limit of them, each created strictly later than the one after it.
C13_ListStrictlyDescending ==
    \A r \in Reqs :
        (req[r].kind = "list_records" /\ Finished(r, 200)) =>
            /\ ListedRows(r)
            /\ \A i \in 1..(Len(req[r].rows) - 1) :
                   records[req[r].rows[i]].at > records[req[r].rows[i + 1]].at

\* C13 amended: list_records returns Contributions of the given goal only, the
\* newest min(limit, count) of them, none created earlier than the one after it
\* (rows with the same creation time in either order).
C13_ListDescending ==
    \A r \in Reqs :
        (req[r].kind = "list_records" /\ Finished(r, 200)) =>
            /\ ListedRows(r)
            /\ \A i \in 1..(Len(req[r].rows) - 1) :
                   records[req[r].rows[i]].at >= records[req[r].rows[i + 1]].at

\* a list_records with the default limit returned two rows, newest first, the
\* newest appended by a request that ran while the list request was under way
C13_Witness ==
    \E q, r \in Reqs :
        /\ req[r].kind = "list_records" /\ Finished(r, 200)
        /\ req[r].limit = DefaultLimit
        /\ Len(req[r].rows) = 2
        /\ records[req[r].rows[1]].at > records[req[r].rows[2]].at
        /\ req[q].kind \in AddKinds /\ req[q].rec = req[r].rows[1]
        /\ req[q].rec > req[r].pre

\* ---------------------------------------------------------------- C18
\* C18: join_room of main.py answers 404 when it finds the room absent, 401 when
\* it finds the password different, 409 when it finds the user already a member,
\* and 200 only together with the insert of the membership row, after the three
\* checks; the other answers leave room_members as it is.
C18_JoinReportsOwnStatus ==
    [][\A r \in Reqs :
          (req[r].kind = "main_join_room" /\ Stepped(r)) =>
              /\ req'[r].cond = "absent" => req'[r].status = 404
              /\ req'[r].cond = "password" => req'[r].status = 401
              /\ req'[r].cond = "member" => req'[r].status = 409
              /\ roomMembers' # roomMembers =>
                     /\ req[r].pc = "insert_member" /\ PasswordOk(r)
                     /\ req'[r].pc = "done" /\ req'[r].status = 200
              /\ (req'[r].pc = "done" /\ req'[r].status # 200) =>
                     roomMembers' = roomMembers]_vars

\* ---------------------------------------------------------------- C19
\* C19: an update_my_profile whose patch has neither display_name nor avatar_url
\* never changes the users table and, unless a storage call raises, ends with
\* 400, whether or not the caller has a profile row.
C19_EmptyPatchNoChange ==
    [][\A r \in Reqs :
          (/\ req[r].kind = "update_my_profile"
           /\ req[r].name = "null" /\ req[r].avatar = "null"
           /\ Stepped(r))
              => /\ users' = users
                 /\ (req'[r].pc = "done" /\ ~req'[r].failed) => req'[r].status = 400]_vars

\* ---------------------------------------------------------------- C15
\* the handler turned the raised call into one of its own client-error answers:
\* get_current_user / get_user_id_from_bearer answer 401, join_room answers by
\* what the message says
Classified(r) ==
    \/ req[r].cond = "identity" /\ req[r].status = 401
    \/ req[r].kind = "join_room" /\ req[r].status = 404
    \/ req[r].kind = "main_join_room" /\ req[r].status \in {404, 401}

====
